---- MODULE Spec2Model ----
(***************************************************************************)
(* A model of the pngme chunk codec: chunk_type.rs (ChunkType), chunk.rs   *)
(* (Chunk) and commands.rs (the four commands over a file), with the Png   *)
(* container the commands call.                                            *)
(*                                                                         *)
(* Bytes are the integers 0..255.  A string is the sequence of its chars'  *)
(* code points.  A u32 is the set of the positions of its one bits         *)
(* (0 = least significant), so that no value of the model exceeds TLC's    *)
(* integers.  A Result is a record [kind, val]: kind "Ok" with the value,  *)
(* kind "Err" with the error's name, kind "Panic" with the panic message.  *)
(***************************************************************************)
EXTENDS Integers, Sequences, FiniteSets, TLC

VARIABLES
    tsrc,       \* the input a ChunkType is built from: [via, arg]
    tag,        \* the Result of building it
    shown,      \* the Result of its to_string
    payload,    \* the data handed to Chunk::new
    chunk,      \* the Chunk made by Chunk::new
    buffer,     \* the bytes handed to Chunk::try_from
    edits,      \* the changes made to buffer since as_bytes returned it
    decoded,    \* the Result of Chunk::try_from
    file,       \* the bytes of the file at file_path
    outfile,    \* the bytes of the file at output_file, None while absent
    prev,       \* file and outfile before the last command
    last,       \* the last command: [cmd, text, message, to, out]
    steps       \* the commands run

typeVars == <<tsrc, tag, shown>>

chunkVars == <<payload, chunk, buffer, edits, decoded>>

cmdVars == <<file, outfile, prev, last, steps>>

vars == <<typeVars, chunkVars, cmdVars>>

(***************************************************************************)
(* Bounds of the model.                                                    *)
(***************************************************************************)
\* The longest string handed to ChunkType::from_str.
MaxStrLen == 5

\* The longest payload handed to Chunk::new.
MaxData == 2

\* The most changes made to an encoded chunk before it is decoded.
MaxEdits == 1

\* The most commands run on a file.
MaxCommands == 3

(***************************************************************************)
(* Results.                                                                *)
(***************************************************************************)
Ok(v) == [kind |-> "Ok", val |-> v]

Err(e) == [kind |-> "Err", val |-> e]

Panic(m) == [kind |-> "Panic", val |-> m]

None == [kind |-> "None", val |-> "none"]

IsOk(r) == r.kind = "Ok"

IsErr(r, e) == r.kind = "Err" /\ r.val = e

IsPanic(r) == r.kind = "Panic"

(***************************************************************************)
(* The standard library's byte and char predicates and its UTF-8 codec.    *)
(***************************************************************************)
is_ascii_uppercase(b) == b >= 65 /\ b <= 90

is_ascii_lowercase(b) == b >= 97 /\ b <= 122

is_ascii_alphabetic(b) == is_ascii_uppercase(b) \/ is_ascii_lowercase(b)

\* The char of the model outside ASCII, U+00E9 (e acute), has Unicode's
\* Alphabetic property.
NonAsciiAlphabetic == {233}

\* char::is_alphabetic
is_alphabetic(c) ==
    IF c < 128 THEN is_ascii_alphabetic(c) ELSE c \in NonAsciiAlphabetic

\* A char's UTF-8 encoding.
char_utf8(c) ==
    IF c < 128 THEN <<c>>
    ELSE IF c < 2048 THEN <<192 + (c \div 64), 128 + (c % 64)>>
    ELSE IF c < 65536
        THEN <<224 + (c \div 4096), 128 + ((c \div 64) % 64), 128 + (c % 64)>>
    ELSE <<240 + (c \div 262144), 128 + ((c \div 4096) % 64),
           128 + ((c \div 64) % 64), 128 + (c % 64)>>

\* str::as_bytes, String::into_bytes: the UTF-8 bytes of a string.
RECURSIVE str_as_bytes(_)
str_as_bytes(s) ==
    IF s = <<>> THEN <<>> ELSE char_utf8(Head(s)) \o str_as_bytes(Tail(s))

IsCont(b) == b >= 128 /\ b <= 191

\* The number of bytes of the well-formed UTF-8 sequence bs starts with; 0 when
\* it starts with none.
Utf8Width(bs) ==
    LET n == Len(bs)
        b == bs[1]
    IN  IF b < 128 THEN 1
        ELSE IF b >= 194 /\ b <= 223 /\ n >= 2 /\ IsCont(bs[2]) THEN 2
        ELSE IF /\ b >= 224 /\ b <= 239 /\ n >= 3
                /\ IsCont(bs[2]) /\ IsCont(bs[3])
                /\ (b = 224 => bs[2] >= 160)
                /\ (b = 237 => bs[2] <= 159) THEN 3
        ELSE IF /\ b >= 240 /\ b <= 244 /\ n >= 4
                /\ IsCont(bs[2]) /\ IsCont(bs[3]) /\ IsCont(bs[4])
                /\ (b = 240 => bs[2] >= 144)
                /\ (b = 244 => bs[2] <= 143) THEN 4
        ELSE 0

Utf8Char(bs, w) ==
    IF w = 1 THEN bs[1]
    ELSE IF w = 2 THEN (bs[1] - 192) * 64 + (bs[2] - 128)
    ELSE IF w = 3
        THEN (bs[1] - 224) * 4096 + (bs[2] - 128) * 64 + (bs[3] - 128)
    ELSE (bs[1] - 240) * 262144 + (bs[2] - 128) * 4096
         + (bs[3] - 128) * 64 + (bs[4] - 128)

\* String::from_utf8: the string, or a FromUtf8Error.
RECURSIVE from_utf8(_)
from_utf8(bs) ==
    IF bs = <<>> THEN Ok(<<>>)
    ELSE LET w == Utf8Width(bs)
         IN  IF w = 0 THEN Err("FromUtf8Error")
             ELSE LET rest == from_utf8(SubSeq(bs, w + 1, Len(bs)))
                  IN  IF IsOk(rest)
                          THEN Ok(<<Utf8Char(bs, w)>> \o rest.val)
                          ELSE rest

(***************************************************************************)
(* chunk_type.rs                                                           *)
(***************************************************************************)
bytes(t) == t.codes

is_critical(t) == is_ascii_uppercase(t.codes[1])

is_public(t) == is_ascii_uppercase(t.codes[2])

NotLowercaseReservedBit(t) == ~is_ascii_lowercase(t.codes[3])

is_reserved_bit_valid(t) == is_ascii_uppercase(t.codes[3])

is_safe_to_copy(t) == is_ascii_lowercase(t.codes[4])

is_only_alphabetic(t) == \A i \in 1..4 : is_ascii_alphabetic(t.codes[i])

is_valid(t) == is_only_alphabetic(t) /\ is_reserved_bit_valid(t)

\* The two checks in the outfile order.
AlphabeticFirst_try_from(value) ==
    LET res == [codes |-> value]
    IN  IF ~is_only_alphabetic(res) THEN Err("InvalidByte")
        ELSE IF ~is_reserved_bit_valid(res) THEN Err("ReservedBit")
        ELSE Ok(res)

\* impl TryFrom<[u8; 4]> for ChunkType
ChunkType_try_from(value) ==
    LET res == [codes |-> value]
    IN  IF ~is_reserved_bit_valid(res) THEN Err("ReservedBit")
        ELSE IF ~is_only_alphabetic(res) THEN Err("InvalidByte")
        ELSE Ok(res)

\* impl FromStr for ChunkType.  bytes[0] .. bytes[3] index the string's UTF-8
\* bytes and panic when there are fewer than four.
from_str(s) ==
    IF \A i \in 1..Len(s) : is_alphabetic(s[i])
        THEN LET bs == str_as_bytes(s)
             IN  IF Len(bs) < 4
                     THEN Panic("index out of bounds")
                     ELSE Ok([codes |-> <<bs[1], bs[2], bs[3], bs[4]>>])
        ELSE Err("InvalidByte")

\* impl Display for ChunkType (to_string): unwrap panics on a FromUtf8Error.
to_string(t) ==
    LET r == from_utf8(t.codes)
    IN  IF IsOk(r) THEN Ok(r.val)
        ELSE Panic("unwrap on an Err value")

\* impl PartialEq for ChunkType
eq(t, other) == \A i \in 1..4 : t.codes[i] = other.codes[i]

(***************************************************************************)
(* u32: the set of the positions of the one bits.                          *)
(***************************************************************************)
Bit(u, i, w) == IF i \in u THEN w ELSE 0

\* Byte k of a u32, k = 0 the least significant.
ByteOf(u, k) ==
    Bit(u, 8 * k, 1) + Bit(u, 8 * k + 1, 2) + Bit(u, 8 * k + 2, 4)
    + Bit(u, 8 * k + 3, 8) + Bit(u, 8 * k + 4, 16) + Bit(u, 8 * k + 5, 32)
    + Bit(u, 8 * k + 6, 64) + Bit(u, 8 * k + 7, 128)

ByteBits(b) == {i \in 0..7 : (b \div (2 ^ i)) % 2 = 1}

\* u32::to_be_bytes
to_be_bytes(u) == <<ByteOf(u, 3), ByteOf(u, 2), ByteOf(u, 1), ByteOf(u, 0)>>

\* u32::from_be_bytes
from_be_bytes(b) ==
    UNION {{8 * (4 - k) + i : i \in ByteBits(b[k])} : k \in 1..4}

\* len as u32, for a length below 2^31 (every sequence of the model).
as_u32(n) == {i \in 0..30 : (n \div (2 ^ i)) % 2 = 1}

\* length as usize, for a u32 below 2^31.
as_usize(u) ==
    ((ByteOf(u, 3) * 256 + ByteOf(u, 2)) * 256 + ByteOf(u, 1)) * 256
    + ByteOf(u, 0)

(***************************************************************************)
(* crc::Crc::<u32>::new(&crc::CRC_32_ISO_HDLC).checksum: width 32, poly    *)
(* 0x04c11db7, init 0xffffffff, refin, refout, xorout 0xffffffff.  With    *)
(* input and output reflected the register shifts right and the            *)
(* polynomial is used reflected, 0xedb88320.                               *)
(***************************************************************************)
AllOnes == 0..31

ReflectedPoly == {31, 30, 29, 27, 26, 24, 23, 21, 20, 19, 15, 9, 8, 5}

Xor(a, b) == {i \in 0..31 : (i \in a) # (i \in b)}

Shr1(a) == {i \in 0..30 : i + 1 \in a}

RECURSIVE crc_shift(_, _)
crc_shift(c, n) ==
    IF n = 0 THEN c
    ELSE IF 0 \in c
        THEN crc_shift({i \in 0..31 : (i + 1 \in c) # (i \in ReflectedPoly)},
                       n - 1)
    ELSE crc_shift(Shr1(c), n - 1)

\* The table of the byte-wise algorithm: the register after the eight shifts
\* of each byte.
CrcTable == [b \in 0..255 |-> crc_shift(ByteBits(b), 8)]

Shr8(a) == {i \in 0..23 : i + 8 \in a}

LowByte(c, b) == ByteOf(Xor(c, ByteBits(b)), 0)

RECURSIVE crc_update(_, _)
crc_update(c, bs) ==
    \* (the test of c has TLC evaluate the register after every byte)
    IF bs = <<>> \/ c \notin SUBSET AllOnes THEN c
    ELSE crc_update(Xor(Shr8(c), CrcTable[LowByte(c, Head(bs))]), Tail(bs))

checksum(bs) == Xor(crc_update(AllOnes, bs), AllOnes)

(***************************************************************************)
(* chunk.rs                                                                *)
(***************************************************************************)
\* Read::read_exact of n bytes at position pos of the slice: the bytes, or
\* an UnexpectedEof error when fewer remain.
read_exact(value, pos, n) ==
    IF Len(value) - pos >= n
        THEN Ok(SubSeq(value, pos + 1, pos + n))
        ELSE Err("UnexpectedEof")

\* try_from taking as data all the bytes before the last four.
Greedy_read_data(value, pos, length) ==
    IF Len(value) - pos >= 4
        THEN Ok(SubSeq(value, pos + 1, Len(value) - 4))
        ELSE Err("UnexpectedEof")

\* vec![0; length as usize] and read_exact into it.  A length of 2^31 or more
\* exceeds every buffer of the model.
read_data(value, pos, length) ==
    IF 31 \in length THEN Err("UnexpectedEof")
    ELSE read_exact(value, pos, as_usize(length))

\* &value[from..to]: the slice, or the panic of an index out of range.
slice(value, from, to) ==
    IF from <= to /\ to <= Len(value)
        THEN Ok(SubSeq(value, from + 1, to))
        ELSE Panic("range end index out of range")

\* Chunk::new with the checksum taken over the data alone.
DataOnlyCrc_new(chunk_type, data) ==
    [length |-> as_u32(Len(data)),
     chunk_type |-> chunk_type,
     data |-> data,
     crc |-> checksum(data)]

\* Chunk::new
Chunk_new(chunk_type, data) ==
    [length |-> as_u32(Len(data)),
     chunk_type |-> chunk_type,
     data |-> data,
     crc |-> checksum(bytes(chunk_type) \o data)]

length(c) == c.length

chunk_type(c) == c.chunk_type

data(c) == c.data

crc(c) == c.crc

\* Chunk::as_bytes
Chunk_as_bytes(c) ==
    to_be_bytes(c.length) \o bytes(c.chunk_type) \o c.data \o to_be_bytes(c.crc)

\* try_from without the comparison of the two checksums.
Unverified_verify(value, len, t, d, crcField) ==
    Ok([length |-> len, chunk_type |-> t, data |-> d, crc |-> crcField])

\* The checks of try_from once the four fields are read.  The slice
\* value[4..8 + length] is taken only after 12 + length bytes were read, so
\* 4 + 4 + length does not overflow a u32 for a buffer of the model.
Chunk_verify(value, len, t, d, crcField) ==
    LET covered == slice(value, 4, 8 + as_usize(len))
    IN  IF ~IsOk(covered) THEN covered
        ELSE IF crcField # checksum(covered.val) THEN Err("CRCError")
        ELSE Ok([length |-> len, chunk_type |-> t, data |-> d,
                 crc |-> crcField])

\* impl TryFrom<&[u8]> for Chunk.  The Chunk is also printed to stdout
\* before it is returned.
Chunk_try_from(value) ==
    LET r1 == read_exact(value, 0, 4)
    IN  IF ~IsOk(r1) THEN r1
        ELSE
    LET len == from_be_bytes(r1.val)
        r2 == read_exact(value, 4, 4)
    IN  IF ~IsOk(r2) THEN r2
        ELSE
    LET t == ChunkType_try_from(r2.val)
    IN  IF ~IsOk(t) THEN Err("ChunkTypeError")
        ELSE
    LET r3 == read_data(value, 8, len)
    IN  IF ~IsOk(r3) THEN r3
        ELSE
    LET r4 == read_exact(value, 8 + Len(r3.val), 4)
    IN  IF ~IsOk(r4) THEN r4
        ELSE Chunk_verify(value, len, t.val, r3.val, from_be_bytes(r4.val))

(***************************************************************************)
(* The Png container (png.rs), which commands.rs calls: a fixed 8-byte     *)
(* header and the chunks in order.  A Png is the sequence of its chunks.   *)
(***************************************************************************)
STANDARD_HEADER == <<137, 80, 78, 71, 13, 10, 26, 10>>

\* The chunks of a buffer: Chunk::try_from on what is left, moving on by the
\* 12 + length bytes of each chunk, until nothing is left.  The first error
\* is the result.  (A value TLC is to compute once is handed on as an
\* argument, here and below.)
Png_push(c, more) == IF IsOk(more) THEN Ok(<<c>> \o more.val) ELSE more

RECURSIVE Png_read_chunks(_)
Png_read_next(c, rest) ==
    IF ~IsOk(c) THEN c
    ELSE Png_push(c.val,
             Png_read_chunks(SubSeq(rest, 12 + Len(c.val.data) + 1, Len(rest))))

Png_read_chunks(rest) ==
    IF rest = <<>> THEN Ok(<<>>)
    ELSE Png_read_next(Chunk_try_from(rest), rest)

\* impl TryFrom<&[u8]> for Png
Png_try_from(value) ==
    IF Len(value) < 8 \/ SubSeq(value, 1, 8) # STANDARD_HEADER
        THEN Err("SignatureError")
        ELSE Png_read_chunks(SubSeq(value, 9, Len(value)))

\* Png::append_chunk
append_chunk(png, c) == Append(png, c)

HasType(c, name) ==
    LET text == to_string(c.chunk_type)
    IN  IsOk(text) /\ text.val = name

\* Png::remove_chunk: the chunks without the first one of the type, or a
\* NotFound error.
remove_chunk(png, name) ==
    IF \E i \in 1..Len(png) : HasType(png[i], name)
        THEN LET i == CHOOSE j \in 1..Len(png) :
                          /\ HasType(png[j], name)
                          /\ \A k \in 1..(j - 1) : ~HasType(png[k], name)
             IN  Ok(SubSeq(png, 1, i - 1) \o SubSeq(png, i + 1, Len(png)))
        ELSE Err("NotFound")

\* Png::chunk_by_type: the first chunk of the type, if any.
chunk_by_type(png, name) ==
    IF \E i \in 1..Len(png) : HasType(png[i], name)
        THEN Ok(png[CHOOSE j \in 1..Len(png) :
                       /\ HasType(png[j], name)
                       /\ \A k \in 1..(j - 1) : ~HasType(png[k], name)])
        ELSE None

\* Png::chunks
chunks(png) == png

RECURSIVE Png_chunk_bytes(_)
Png_chunk_bytes(png) ==
    IF png = <<>> THEN <<>>
    ELSE Chunk_as_bytes(Head(png)) \o Png_chunk_bytes(Tail(png))

\* Png::as_bytes
Png_as_bytes(png) == STANDARD_HEADER \o Png_chunk_bytes(png)

(***************************************************************************)
(* commands.rs.  Each command is given the bytes fs::read returned and the *)
(* ChunkType clap parsed; a command that writes returns Ok with the bytes  *)
(* it wrote, and an Err or Panic means that it wrote nothing.              *)
(***************************************************************************)
\* encode, from the Png read
encode_png(png, t, message) ==
    IF ~IsOk(png) THEN png
    ELSE Ok(Png_as_bytes(
             append_chunk(png.val, Chunk_new(t, str_as_bytes(message)))))

\* encode
encode(input, t, message) == encode_png(Png_try_from(input), t, message)

decode_found(found) == IF IsOk(found) THEN Ok("chunk") ELSE Ok("is not found")

decode_png(png, name) ==
    IF ~IsOk(png) THEN png
    ELSE IF ~IsOk(name) THEN name
    ELSE decode_found(chunk_by_type(png.val, name.val))

\* decode: the chunk printed, or the message that there is none.
decode(input, t) == decode_png(Png_try_from(input), to_string(t))

Lenient_removed(png, left) ==
    IF ~IsOk(left) THEN Ok(Png_as_bytes(png)) ELSE Ok(Png_as_bytes(left.val))

\* The end of remove: the ? on the result of remove_chunk, then the write.
remove_removed(png, left) ==
    IF ~IsOk(left) THEN left ELSE Ok(Png_as_bytes(left.val))

remove_png(png, name) ==
    IF ~IsOk(png) THEN png
    ELSE IF ~IsOk(name) THEN name
    ELSE remove_removed(png.val, remove_chunk(png.val, name.val))

\* remove
remove(input, t) == remove_png(Png_try_from(input), to_string(t))

TypeNames_push(name, more) ==
    IF ~IsOk(name) THEN name
    ELSE IF ~IsOk(more) THEN more
    ELSE Ok(<<name.val>> \o more.val)

RECURSIVE TypeNames(_)
TypeNames(png) ==
    IF png = <<>> THEN Ok(<<>>)
    ELSE TypeNames_push(to_string(Head(png).chunk_type), TypeNames(Tail(png)))

print_png(png) == IF ~IsOk(png) THEN png ELSE TypeNames(chunks(png.val))

\* print: the type of every chunk, in order.
print(input) == print_png(Png_try_from(input))

(***************************************************************************)
(* The ChunkType machine: a tag is built from bytes (try_from) or from     *)
(* text (from_str), and is then displayed.                                 *)
(***************************************************************************)
\* The bytes a [u8; 4] is drawn from: the digit 1, the letters R S Z s t u z,
\* the four bytes next to the letters' ranges (64, 91, 96, 123) and 0xC3.
TypeBytes == {49, 64, 82, 83, 90, 91, 96, 115, 116, 117, 122, 123, 195}

\* The chars a string is drawn from: the digit 1, the letters R S s t u and
\* U+00E9.
Chars == {49, 82, 83, 115, 116, 117, 233}

Strings(max) == UNION {[1..n -> Chars] : n \in 0..max}

Inputs(max) ==
    {[via |-> "try_from", arg |-> value] : value \in [1..4 -> TypeBytes]}
    \cup {[via |-> "from_str", arg |-> str] : str \in Strings(max)}

NoChunk ==
    /\ payload = <<>>
    /\ chunk = None
    /\ buffer = None
    /\ edits = 0
    /\ decoded = None

NoLast ==
    [cmd |-> "none", text |-> <<>>, message |-> <<>>, to |-> "none",
     out |-> None]

NoCommand ==
    /\ file = <<>>
    /\ outfile = None
    /\ prev = [file |-> <<>>, outfile |-> None]
    /\ last = NoLast
    /\ steps = 0

InitType ==
    /\ tsrc \in Inputs(MaxStrLen)
    /\ tag = None
    /\ shown = None
    /\ NoChunk
    /\ NoCommand

\* ChunkType::try_from(value)
TryFromBytes ==
    /\ tsrc.via = "try_from"
    /\ tag = None
    /\ tag' = ChunkType_try_from(tsrc.arg)
    /\ UNCHANGED <<tsrc, shown, chunkVars, cmdVars>>

\* ChunkType::from_str(s), also s.parse()
FromStr ==
    /\ tsrc.via = "from_str"
    /\ tag = None
    /\ tag' = from_str(tsrc.arg)
    /\ UNCHANGED <<tsrc, shown, chunkVars, cmdVars>>

\* chunk_type.to_string()
Display ==
    /\ IsOk(tag)
    /\ shown = None
    /\ shown' = to_string(tag.val)
    /\ UNCHANGED <<tsrc, tag, chunkVars, cmdVars>>

NextType == TryFromBytes \/ FromStr \/ Display

SpecChunkType == InitType /\ [][NextType]_vars

(***************************************************************************)
(* The Chunk machine: a tag is built, Chunk::new makes a chunk of it and   *)
(* of a payload, as_bytes encodes the chunk, the holder of the bytes may   *)
(* change them (flip a bit, cut the end off, add a byte), and try_from     *)
(* decodes what is left.                                                   *)
(***************************************************************************)
\* "RuSt" as bytes; "RuSt", "Rust" and two U+00E9 as text.
TagInputs ==
    {[via |-> "try_from", arg |-> <<82, 117, 83, 116>>],
     [via |-> "from_str", arg |-> <<82, 117, 83, 116>>],
     [via |-> "from_str", arg |-> <<82, 117, 115, 116>>],
     [via |-> "from_str", arg |-> <<233, 233>>]}

\* The byte payloads are made of: the letter h.
DataBytes == {104}

Payloads == UNION {[1..n -> DataBytes] : n \in 0..MaxData}

\* The bytes that may be added behind a buffer.
TrailingBytes == {0, 255}

InitChunk ==
    /\ tsrc \in TagInputs
    /\ tag = None
    /\ shown = None
    /\ payload \in Payloads
    /\ chunk = None
    /\ buffer = None
    /\ edits = 0
    /\ decoded = None
    /\ NoCommand

\* Chunk::new(chunk_type, data)
New ==
    /\ IsOk(tag)
    /\ chunk = None
    /\ chunk' = Ok(Chunk_new(tag.val, payload))
    /\ UNCHANGED <<cmdVars, typeVars, payload, buffer, edits, decoded>>

\* chunk.length(), chunk.chunk_type(), chunk.data(), chunk.crc(): each takes
\* &self and returns a field.
Accessors ==
    /\ IsOk(chunk)
    /\ length(chunk.val) = chunk.val.length
    /\ chunk_type(chunk.val) = chunk.val.chunk_type
    /\ data(chunk.val) = chunk.val.data
    /\ crc(chunk.val) = chunk.val.crc
    /\ UNCHANGED vars

\* chunk.as_bytes()
AsBytes ==
    /\ IsOk(chunk)
    /\ buffer = None
    /\ buffer' = Ok(Chunk_as_bytes(chunk.val))
    /\ UNCHANGED <<cmdVars, typeVars, payload, chunk, edits, decoded>>

FlipAt(bs, i, k) ==
    [bs EXCEPT ![i] = IF k \in ByteBits(bs[i]) THEN bs[i] - 2 ^ k
                                                ELSE bs[i] + 2 ^ k]

Editable == IsOk(buffer) /\ decoded = None /\ edits < MaxEdits

FlipBit ==
    /\ Editable
    /\ \E i \in 1..Len(buffer.val), k \in 0..7 :
           buffer' = Ok(FlipAt(buffer.val, i, k))
    /\ edits' = edits + 1
    /\ UNCHANGED <<cmdVars, typeVars, payload, chunk, decoded>>

Truncate ==
    /\ Editable
    /\ \E n \in 0..(Len(buffer.val) - 1) :
           buffer' = Ok(SubSeq(buffer.val, 1, n))
    /\ edits' = edits + 1
    /\ UNCHANGED <<cmdVars, typeVars, payload, chunk, decoded>>

AppendByte ==
    /\ Editable
    /\ \E b \in TrailingBytes : buffer' = Ok(Append(buffer.val, b))
    /\ edits' = edits + 1
    /\ UNCHANGED <<cmdVars, typeVars, payload, chunk, decoded>>

\* Chunk::try_from(buffer)
TryFrom ==
    /\ IsOk(buffer)
    /\ decoded = None
    /\ decoded' = Chunk_try_from(buffer.val)
    /\ UNCHANGED <<cmdVars, typeVars, payload, chunk, buffer, edits>>

NextChunk ==
    \/ TryFromBytes
    \/ FromStr
    \/ New
    \/ Accessors
    \/ AsBytes
    \/ FlipBit
    \/ Truncate
    \/ AppendByte
    \/ TryFrom

SpecChunk == InitChunk /\ [][NextChunk]_vars

(***************************************************************************)
(* The command machine: encode, decode, remove and print run, one after    *)
(* another, on the file at file_path.  encode writes the file it read, or, *)
(* given an output_file, that one.  clap parses a command's chunk_type     *)
(* with from_str before the command runs.                                  *)
(***************************************************************************)
\* The chunk types typed: "RuSt", "teXt" and "Rust".
TypeTexts ==
    {<<82, 117, 83, 116>>, <<116, 101, 88, 116>>, <<82, 117, 115, 116>>}

\* The messages typed: "h" and "i".
Messages == {<<104>>, <<105>>}

ChunkOf(text, message) == Chunk_new([codes |-> text], str_as_bytes(message))

\* The files the commands start from: no chunk; "RuSt" h, "teXt" i, "RuSt" i.
InitialFiles ==
    {Png_as_bytes(<<>>),
     Png_as_bytes(<<ChunkOf(<<82, 117, 83, 116>>, <<104>>),
                    ChunkOf(<<116, 101, 88, 116>>, <<105>>),
                    ChunkOf(<<82, 117, 83, 116>>, <<105>>)>>)}

InitCommands ==
    /\ tsrc = [via |-> "none", arg |-> <<>>]
    /\ tag = None
    /\ shown = None
    /\ NoChunk
    /\ file \in InitialFiles
    /\ outfile = None
    /\ prev = [file |-> <<>>, outfile |-> None]
    /\ last = NoLast
    /\ steps = 0

Ran(cmd, text, message, to, out) ==
    /\ last' = [cmd |-> cmd, text |-> text, message |-> message, to |-> to,
                out |-> out]
    /\ prev' = [file |-> file, outfile |-> outfile]
    /\ steps' = steps + 1
    /\ UNCHANGED <<typeVars, chunkVars>>

\* What a command run with chunk_type text returns: clap parses the text
\* first, and its failure is the command's.
Parsed(text, out) ==
    LET t == from_str(text) IN IF IsOk(t) THEN out ELSE t

\* The chunk_type a command receives once its text has parsed.
chunk_type_arg(text) == from_str(text).val

\* pngme encode file_path chunk_type message [output_file]
Encode ==
    /\ steps < MaxCommands
    /\ \E text \in TypeTexts, message \in Messages,
          to \in {"file_path", "output_file"} :
           LET run == encode(file, chunk_type_arg(text), message)
           IN  \E out \in {Parsed(text, run)} :
                   /\ Ran("encode", text, message, to, out)
                   /\ file' = IF IsOk(out) /\ to = "file_path"
                                   THEN out.val ELSE file
                   /\ outfile' = IF IsOk(out) /\ to = "output_file"
                                      THEN Ok(out.val) ELSE outfile

\* pngme decode file_path chunk_type
Decode ==
    /\ steps < MaxCommands
    /\ \E text \in TypeTexts :
           LET run == decode(file, chunk_type_arg(text))
           IN  /\ Ran("decode", text, <<>>, "none", Parsed(text, run))
               /\ UNCHANGED <<file, outfile>>

\* pngme remove file_path chunk_type
Remove ==
    /\ steps < MaxCommands
    /\ \E text \in TypeTexts :
           LET run == remove(file, chunk_type_arg(text))
           IN  \E out \in {Parsed(text, run)} :
                   /\ Ran("remove", text, <<>>, "file_path", out)
                   /\ file' = IF IsOk(out) THEN out.val ELSE file
                   /\ UNCHANGED outfile

\* pngme print file_path
PrintTypes ==
    /\ steps < MaxCommands
    /\ Ran("print", <<>>, <<>>, "none", print(file))
    /\ UNCHANGED <<file, outfile>>

NextCommands == Encode \/ Decode \/ Remove \/ PrintTypes

SpecCommands == InitCommands /\ [][NextCommands]_vars

(***************************************************************************)
(* The claims about ChunkType, properties of SpecChunkType.                 *)
(***************************************************************************)
RuSt == <<82, 117, 83, 116>>

Rust == <<82, 117, 115, 116>>

Ru1t == <<82, 117, 49, 116>>

Uppercase == 65..90

Letters == (65..90) \cup (97..122)

Built(via) == tsrc.via = via /\ tag.kind # "None"

\* C2, as stated: try_from accepts the bytes of "RuSt", rejects "Rust" with
\* ReservedBit and rejects "Ru1t" with InvalidByte.
C2_Original ==
    Built("try_from") =>
        /\ (tsrc.arg = RuSt => IsOk(tag) /\ tag.val.codes = RuSt)
        /\ (tsrc.arg = Rust => IsErr(tag, "ReservedBit"))
        /\ (tsrc.arg = Ru1t => IsErr(tag, "InvalidByte"))

\* C2, amended: try_from accepts the bytes of "RuSt", rejects "Rust" with
\* ReservedBit and rejects "Ru1t", whose byte 2 is a digit, with ReservedBit
\* too: the reserved-bit check comes first.
C2_TypeLegality ==
    Built("try_from") =>
        /\ (tsrc.arg = RuSt => IsOk(tag) /\ tag.val.codes = RuSt)
        /\ (tsrc.arg = Rust => IsErr(tag, "ReservedBit"))
        /\ (tsrc.arg = Ru1t => IsErr(tag, "ReservedBit"))

C2_Witness == Built("try_from") /\ tsrc.arg = Ru1t /\ tag.kind = "Err"

\* C9: for every 4-byte input try_from returns ReservedBit when byte 2 is not
\* an ASCII uppercase letter (a non-letter included), otherwise InvalidByte
\* when some byte is not an ASCII letter, otherwise the tag; it succeeds
\* exactly on the inputs whose tag has is_valid.
C9_ErrorPrecedence ==
    Built("try_from") =>
        LET b == tsrc.arg
        IN  /\ (b[3] \notin Uppercase => IsErr(tag, "ReservedBit"))
            /\ (b[3] \in Uppercase /\ (\E i \in 1..4 : b[i] \notin Letters)
                    => IsErr(tag, "InvalidByte"))
            /\ (b[3] \in Uppercase /\ (\A i \in 1..4 : b[i] \in Letters)
                    => IsOk(tag) /\ tag.val.codes = b)
            /\ (IsOk(tag) <=> is_valid([codes |-> b]))

\* Byte 2 is a non-letter and another byte is one too: ReservedBit wins.
C9_Witness ==
    /\ Built("try_from")
    /\ tsrc.arg[3] \notin Letters
    /\ tsrc.arg[1] \notin Letters
    /\ IsErr(tag, "ReservedBit")

\* C6: from_str never panics: every string yields a tag or InvalidByte, and a
\* string of fewer than 4 chars yields InvalidByte.
C6_NeverPanics ==
    Built("from_str") =>
        /\ IsOk(tag) \/ IsErr(tag, "InvalidByte")
        /\ (Len(tsrc.arg) < 4 => IsErr(tag, "InvalidByte"))

\* C10: every tag built, from bytes or from any string, holds four ASCII
\* letters, and to_string succeeds and returns them as a 4-char string.
C10_ByteInvariant ==
    IsOk(tag) =>
        /\ \A i \in 1..4 : tag.val.codes[i] \in Letters
        /\ (shown.kind # "None" => IsOk(shown) /\ shown.val = tag.val.codes)

(***************************************************************************)
(* The claims about Chunk, properties of SpecChunk.                         *)
(***************************************************************************)
\* The fields of a record laid out in a buffer b, read off its positions.
Declared(b) == ((b[1] * 256 + b[2]) * 256 + b[3]) * 256 + b[4]

\* b holds a whole record: 12 bytes and as many more as its first four say.
Complete(b) == Len(b) >= 4 /\ b[1] < 128 /\ Len(b) >= 12 + Declared(b)

TypeField(b) == SubSeq(b, 5, 8)

DataField(b) == SubSeq(b, 9, 8 + Declared(b))

CrcField(b) == SubSeq(b, 9 + Declared(b), 12 + Declared(b))

Recomputed(b) == to_be_bytes(checksum(TypeField(b) \o DataField(b)))

Accepted(b) == IsOk(ChunkType_try_from(TypeField(b)))

SameResult(r1, r2) == r1.kind = r2.kind /\ r1.val = r2.val

Encoded == Chunk_as_bytes(chunk.val)

Decoded == decoded.kind # "None"

\* C1: for any tag built by try_from or by from_str and any payload,
\* decoding the encoding of Chunk::new(t, p) succeeds and yields a Chunk with
\* the same length, type, payload and checksum.
C1_RoundTrip ==
    Decoded /\ edits = 0 =>
        /\ IsOk(decoded)
        /\ decoded.val.length = chunk.val.length
        /\ decoded.val.chunk_type = chunk.val.chunk_type
        /\ decoded.val.data = chunk.val.data
        /\ decoded.val.crc = chunk.val.crc

\* The buffer is the encoding of a chunk of a valid type with one bit of its
\* payload or of its checksum flipped.
OneBitFlipped ==
    /\ IsOk(chunk)
    /\ is_valid(chunk.val.chunk_type)
    /\ \E i \in 9..Len(Encoded), k \in 0..7 :
           buffer.val = FlipAt(Encoded, i, k)

\* C3: a buffer that holds a whole record with an accepted type and a
\* checksum field outfile than the CRC-32 of its type and payload bytes is
\* refused with CRCError; so is the encoding of a valid chunk with any one
\* bit of its payload or checksum flipped.
C3_ChecksumVerified ==
    Decoded =>
        /\ (Complete(buffer.val) /\ Accepted(buffer.val)
                /\ CrcField(buffer.val) # Recomputed(buffer.val)
             => IsErr(decoded, "CRCError"))
        /\ (OneBitFlipped => IsErr(decoded, "CRCError"))

\* A bit of a payload byte was flipped, and the decoder refused the buffer.
C3_Witness ==
    /\ Decoded
    /\ OneBitFlipped
    /\ Len(payload) > 0
    /\ buffer.val[9] # Encoded[9]
    /\ IsErr(decoded, "CRCError")

ChunkInvariant(c) ==
    /\ 31 \notin c.length
    /\ as_usize(c.length) = Len(c.data)
    /\ c.crc = checksum(c.chunk_type.codes \o c.data)

\* The check value of CRC-32/ISO-HDLC (the CRC of "123456789" is
\* 0xcbf43926), and the chunk of the tests: type RuSt, payload "This is where
\* your secret message will be!", CRC 2882656334 = 0xabd1d84e.
CheckValues ==
    /\ to_be_bytes(checksum(<<49, 50, 51, 52, 53, 54, 55, 56, 57>>))
           = <<203, 244, 57, 38>>
    /\ to_be_bytes(checksum(
           <<82, 117, 83, 116, 84, 104, 105, 115, 32, 105, 115, 32, 119, 104,
             101, 114, 101, 32, 121, 111, 117, 114, 32, 115, 101, 99, 114, 101,
             116, 32, 109, 101, 115, 115, 97, 103, 101, 32, 119, 105, 108, 108,
             32, 98, 101, 33>>)) = <<171, 209, 216, 78>>

ChunksWellFormed ==
    /\ CheckValues
    /\ (IsOk(tag) /\ chunk.kind # "None" =>
            /\ IsOk(chunk)
            /\ chunk.val.chunk_type = tag.val
            /\ chunk.val.data = payload)
    /\ (IsOk(chunk) => ChunkInvariant(chunk.val))
    /\ (IsOk(decoded) => ChunkInvariant(decoded.val))

\* C4: every Chunk, made by Chunk::new or returned by try_from, has length =
\* the number of payload bytes and crc = the CRC-32/ISO-HDLC of the type's 4
\* bytes and the payload; Chunk::new always succeeds; the accessors and
\* as_bytes change no field.
C4_ChunkInvariant ==
    /\ []ChunksWellFormed
    /\ [][Accessors \/ AsBytes => chunk' = chunk]_vars

\* A chunk with a payload was made, encoded and decoded again.
C4_Witness ==
    /\ IsOk(chunk) /\ Len(chunk.val.data) = MaxData
    /\ IsOk(decoded) /\ Len(decoded.val.data) > 0

\* C5: try_from reads a big-endian length L, 4 type bytes, L payload bytes
\* and a 4-byte big-endian checksum off the front of the buffer, 12 + L bytes
\* in all.  Bytes behind them do not change the result.  When the buffer is
\* shorter than the field being read (fewer than 4 or 8 bytes; with the type
\* read and accepted, fewer than 8 + L or 12 + L) the result is the
\* UnexpectedEof error of read_exact, not a Chunk and not a panic.
C5_Framing ==
    Decoded =>
        LET b == buffer.val
        IN  /\ ~IsPanic(decoded)
            /\ (Len(b) < 8 => IsErr(decoded, "UnexpectedEof"))
            /\ (Len(b) >= 8 /\ Accepted(b) /\ ~Complete(b)
                    => IsErr(decoded, "UnexpectedEof"))
            /\ (Complete(b) =>
                    SameResult(decoded,
                        Chunk_try_from(SubSeq(b, 1, 12 + Declared(b)))))
            /\ (IsOk(decoded) =>
                    /\ Complete(b)
                    /\ to_be_bytes(decoded.val.length) = SubSeq(b, 1, 4)
                    /\ decoded.val.chunk_type.codes = TypeField(b)
                    /\ decoded.val.data = DataField(b)
                    /\ to_be_bytes(decoded.val.crc) = CrcField(b))

\* A whole record with a byte behind it decodes to the chunk it encodes.
C5_Witness ==
    /\ Decoded
    /\ IsOk(chunk)
    /\ Len(payload) > 0
    /\ Len(buffer.val) = Len(Encoded) + 1
    /\ IsOk(decoded)
    /\ decoded.val = chunk.val

(***************************************************************************)
(* The claims about the container and the commands, properties of         *)
(* SpecCommands.                                                           *)
(***************************************************************************)
Without(cs, i) == SubSeq(cs, 1, i - 1) \o SubSeq(cs, i + 1, Len(cs))

OfType(c, name) == c.chunk_type.codes = name

\* remove of type name, run on a file holding the chunks before, returned
\* out and left a file holding the chunks after.
RemovedFirst(before, name, out, after) ==
    IsOk(before) =>
        IF \E i \in 1..Len(before.val) : OfType(before.val[i], name)
            THEN /\ IsOk(out)
                 /\ IsOk(after)
                 /\ \E i \in 1..Len(before.val) :
                        /\ OfType(before.val[i], name)
                        /\ \A k \in 1..(i - 1) : ~OfType(before.val[k], name)
                        /\ after.val = Without(before.val, i)
            ELSE /\ IsErr(out, "NotFound")
                 /\ file = prev.file

KeptLater(before, name, after) ==
    /\ IsOk(before) /\ IsOk(after)
    /\ Len(after.val) = Len(before.val) - 1
    /\ OfType(before.val[1], name)
    /\ \E i \in 1..Len(after.val) : OfType(after.val[i], name)
    /\ \E i \in 1..Len(after.val) : ~OfType(after.val[i], name)

Written == IF last.to = "output_file" THEN outfile.val ELSE file

Appended(before, t, message, after) ==
    /\ IsOk(after)
    /\ after.val = Append(before.val, Chunk_new(t.val, str_as_bytes(message)))

\* C8: after any sequence of encode (the type built from the text typed) and
\* remove, the file written decodes again, to the chunks the command left:
\* those read and the chunk appended, or those read without the one removed.
C8_RoundTrip ==
    /\ (last.cmd = "encode" /\ IsOk(last.out) =>
            Appended(Png_try_from(prev.file), from_str(last.text),
                     last.message, Png_try_from(Written)))
    /\ (last.cmd = "remove" /\ IsOk(last.out) => IsOk(Png_try_from(Written)))

====
